---- MODULE Spec2Model ----
(***************************************************************************)
(* Model of sqlserver/datadog_checks/sqlserver/activity.py: the            *)
(* SqlserverActivity job.  One poll (collect_activity) opens a connection  *)
(* and a cursor, fetches the connection summary, fetches the transaction   *)
(* activity with a filter built from _activity_last_query_start,           *)
(* normalizes the rows under a byte budget, and submits one event.         *)
(*                                                                         *)
(* Column values are tagged scalars: None, Str, Dt (a datetime, in         *)
(* seconds), Bytes (a sequence of byte values), Num.                       *)
(***************************************************************************)
EXTENDS Integers, Sequences, FiniteSets, TLC

\* ---- bounds ----
\* transaction_begin_time ranges over the ticks 1..MaxTick, five seconds apart
MaxTick == 2
\* at most MaxRows transactions are live at once
MaxRows == 2

\* ---- tagged scalar values ----
None == [t |-> "null"]
Str(s) == [t |-> "str", v |-> s]
Dt(n) == [t |-> "datetime", v |-> n]
Bytes(b) == [t |-> "bytes", v |-> b]
Num(n) == [t |-> "int", v |-> n]

Tick(i) == 5 * i

\* ---- program constants ----
DEFAULT_COLLECTION_INTERVAL == 10

dm_exec_requests_exclude_keys ==
    {"sql_handle", "plan_handle", "statement_sql_handle", "task_address",
     "page_resource", "scheduler_id", "context_info"}

\* the text the normalizer substitutes when obfuscation fails
ObfuscationErrorText == "ERROR: failed to obfuscate"

\* ---- the rows ACTIVITY_QUERY returns ----
\* One row of ACTIVITY_QUERY after dict(zip(columns, row)).  r.* comes last in
\* the select list, so the key session_id holds r.session_id; every r.* column
\* is NULL when the LEFT OUTER JOIN finds no request.
ActivityRow(begin, status, text, has_request, start) ==
    [transaction_begin_time |-> Dt(begin),
     status                 |-> Str(status),
     text                   |-> Str(text),
     session_id             |-> IF has_request THEN Num(51) ELSE None,
     start_time             |-> IF has_request THEN Dt(start) ELSE None,
     query_hash             |-> IF has_request THEN Bytes(<<171, 1>>) ELSE None,
     query_plan_hash        |-> IF has_request THEN Bytes(<<15, 240>>) ELSE None,
     sql_handle             |-> IF has_request THEN Bytes(<<2>>) ELSE None,
     plan_handle            |-> IF has_request THEN Bytes(<<6>>) ELSE None,
     statement_sql_handle   |-> IF has_request THEN Bytes(<<2>>) ELSE None,
     task_address           |-> IF has_request THEN Bytes(<<9>>) ELSE None,
     page_resource          |-> None,
     scheduler_id           |-> IF has_request THEN Num(3) ELSE None,
     context_info           |-> IF has_request THEN Bytes(<<>>) ELSE None]

BeginTimes == {Tick(i) : i \in 1..MaxTick}

\* the rows the live views can hold.  The statements are "SELECT 1" and
\* "SELECT 2", which differ only in a literal, and "SELECT '", which the
\* obfuscator rejects.
RowUniverse ==
    UNION {
      { ActivityRow(b, "running", "SELECT 1", TRUE, b + 5),
        ActivityRow(b, "running", "SELECT '", TRUE, b),
        ActivityRow(b, "sleeping", "SELECT 1", TRUE, b + 5),
        ActivityRow(b, "sleeping", "SELECT 2", FALSE, 0),
        ActivityRow(b, "dormant", "SELECT 2", FALSE, 0) } : b \in BeginTimes }

\* the rows CONNECTIONS_QUERY can return
ConnectionRow(user, n, status) ==
    [user_name |-> Str(user), connections |-> Num(n), status |-> Str(status),
     database_name |-> Str("master")]

ConnectionResults ==
    { <<>>,
      <<ConnectionRow("bob", 2, "sleeping"), ConnectionRow("alice", 1, "running")>> }

\* ---- collaborators ----
\* datadog_agent.obfuscate_sql: replaces literals, or raises
obfuscate_sql(text) ==
    IF text = "SELECT '" THEN [ok |-> FALSE, v |-> ""]
    ELSE [ok |-> TRUE, v |-> "SELECT ?"]

\* compute_sql_signature: a deterministic hash of the obfuscated text
compute_sql_signature(statement) == "sig:" \o statement

\* ---- pure helpers ----
HexDigits == <<"0", "1", "2", "3", "4", "5", "6", "7", "8", "9",
               "a", "b", "c", "d", "e", "f">>

RECURSIVE hexlify(_)
hexlify(b) ==
    IF b = <<>> THEN ""
    ELSE HexDigits[(Head(b) \div 16) + 1] \o HexDigits[(Head(b) % 16) + 1]
         \o hexlify(Tail(b))

hash_to_hex(hash) == Str(hexlify(hash.v))

\* row[key] = val on a copy of the row
SetItem(row, key, val) ==
    [k \in (DOMAIN row) \cup {key} |-> IF k = key THEN val ELSE row[k]]

\* mutant: the None values are kept
sanitize_row_keeps_none(row, obfuscated_statement) ==
    LET kept == {k \in DOMAIN row : k \notin dm_exec_requests_exclude_keys}
        r0 == [k \in kept |-> row[k]]
        r1 == SetItem(r0, "text", Str(obfuscated_statement))
        r2 == IF r1["query_hash"] # None
              THEN SetItem(r1, "query_hash", hash_to_hex(r1["query_hash"]))
              ELSE r1
        r3 == IF r2["query_plan_hash"] # None
              THEN SetItem(r2, "query_plan_hash", hash_to_hex(r2["query_plan_hash"]))
              ELSE r2
    IN r3

sanitize_row(row, obfuscated_statement) ==
    LET kept == {k \in DOMAIN row :
                    k \notin dm_exec_requests_exclude_keys /\ row[k] # None}
        r0 == [k \in kept |-> row[k]]
        r1 == SetItem(r0, "text", Str(obfuscated_statement))
        r2 == IF "query_hash" \in DOMAIN r1
              THEN SetItem(r1, "query_hash", hash_to_hex(r1["query_hash"]))
              ELSE r1
        r3 == IF "query_plan_hash" \in DOMAIN r2
              THEN SetItem(r2, "query_plan_hash", hash_to_hex(r2["query_plan_hash"]))
              ELSE r2
    IN r3

\* len(repr(value))
DigitsLen(n) == IF n < 10 THEN 1 ELSE IF n < 100 THEN 2 ELSE 3

ReprLen(val) ==
    CASE val.t = "null"     -> 4
      [] val.t = "str"      -> Len(val.v) + 2
      [] val.t = "int"      -> DigitsLen(val.v)
      [] val.t = "bytes"    -> 3 + 4 * Len(val.v)
      [] val.t = "datetime" -> Len("datetime.datetime(2021, 9, 1, 0, 0, )") + DigitsLen(val.v)

RECURSIVE SumOver(_, _)
SumOver(S, f) ==
    IF S = {} THEN 0
    ELSE LET x == CHOOSE y \in S : TRUE IN f[x] + SumOver(S \ {x}, f)

\* len(str(row)): "{" + ", ".join("'key': repr(value)") + "}"
get_estimated_row_size_bytes(row) ==
    LET keys == DOMAIN row
        item == [k \in keys |-> Len(k) + 2 + 2 + ReprLen(row[k])]
        n == Cardinality(keys)
    IN 2 + SumOver(keys, item) + (IF n > 0 THEN 2 * (n - 1) ELSE 0)

\* mutant: the comparison with the current value is lost
set_last_activity_no_compare(current_start, row) ==
    IF row["start_time"] # None THEN row["start_time"] ELSE current_start

\* mutant: only the first start_time is ever recorded
set_last_activity_first_only(current_start, row) ==
    IF row["start_time"] # None /\ current_start = None
    THEN row["start_time"]
    ELSE current_start

\* mutant: the normalizer leaves the watermark as it found it
set_last_activity_keeps_current(current_start, row) == current_start

set_last_activity(current_start, row) ==
    IF row["start_time"] # None
    THEN IF current_start = None \/ row["start_time"].v > current_start.v
         THEN row["start_time"]
         ELSE current_start
    ELSE current_start

\* ---- the normalizer ----
\* mutant: the obfuscator's exception is not caught
obfuscate_statement_uncaught(row) ==
    LET res == obfuscate_sql(row["text"].v) IN
    [row |-> SetItem(row, "query_signature", Str(compute_sql_signature(res.v))),
     obfuscated_statement |-> res.v,
     raised |-> ~res.ok]

\* mutant: the signature is computed from the raw statement
obfuscate_statement_signs_raw(row) ==
    LET res == obfuscate_sql(row["text"].v) IN
    IF res.ok
    THEN [row |-> SetItem(row, "query_signature",
                          Str(compute_sql_signature(row["text"].v))),
          obfuscated_statement |-> res.v,
          raised |-> FALSE]
    ELSE [row |-> row,
          obfuscated_statement |-> ObfuscationErrorText,
          raised |-> FALSE]

\* lines 148-154: obfuscate and sign the statement, or fall back to the
\* sentinel text; raised is whether the exception leaves the try block
obfuscate_statement(row) ==
    LET res == obfuscate_sql(row["text"].v) IN
    IF res.ok
    THEN [row |-> SetItem(row, "query_signature", Str(compute_sql_signature(res.v))),
          obfuscated_statement |-> res.v,
          raised |-> FALSE]
    ELSE [row |-> row,
          obfuscated_statement |-> ObfuscationErrorText,
          raised |-> FALSE]

\* mutant: the cold-start rule is applied in every poll
skip_idle_row_any_poll(last_query_start, row) ==
    row["status"] = Str("sleeping")

\* line 146: the row is skipped
skip_idle_row(last_query_start, row) ==
    last_query_start = None /\ row["status"] = Str("sleeping")

\* mutant: a running total equal to the budget is over it
over_limit_at_budget(estimated_size, max_bytes_limit) ==
    estimated_size >= max_bytes_limit

\* line 159: the budget check
over_limit(estimated_size, max_bytes_limit) == estimated_size > max_bytes_limit

\* lines 159-163: what the loop does with the sanitized row: st is the loop
\* state after the size was added, over is the result of the budget check
\* mutant: the row is appended before the budget is checked
append_then_return(st, row, over) ==
    [st EXCEPT !.normalized_rows = Append(@, row), !.returned = over]

accept_or_return(st, row, over) ==
    IF over
    THEN [st EXCEPT !.returned = TRUE]
    ELSE [st EXCEPT !.normalized_rows = Append(@, row)]

\* The body of the loop for rows[i] .. rows[Len(rows)].  st carries
\* normalized_rows, estimated_size and self._activity_last_query_start, and
\* records what the loop did with each index: skipped (line 147), considered
\* (reached line 156), cut (the index at which line 162 returned, or 0).
RECURSIVE normalize_from(_, _, _, _)
normalize_from(rows, max_bytes_limit, i, st) ==
    IF i > Len(rows) \/ st.returned \/ st.raised THEN st
    ELSE
      LET row == rows[i] IN
      IF skip_idle_row(st.last_query_start, row)
      THEN normalize_from(rows, max_bytes_limit, i + 1,
                          [st EXCEPT !.skipped = @ \cup {i}])
      ELSE
        LET ob == obfuscate_statement(row) IN
        IF ob.raised THEN [st EXCEPT !.raised = TRUE]
        ELSE
          LET last == set_last_activity(st.last_query_start, ob.row)
              srow == sanitize_row(ob.row, ob.obfuscated_statement)
              size == st.estimated_size + get_estimated_row_size_bytes(srow)
              st1  == [st EXCEPT !.last_query_start = last,
                                 !.estimated_size = size,
                                 !.considered = Append(@, i),
                                 !.cut = IF over_limit(size, max_bytes_limit)
                                         THEN i ELSE 0]
          IN normalize_from(rows, max_bytes_limit, i + 1,
                            accept_or_return(st1, srow,
                                             over_limit(size, max_bytes_limit)))

normalize_queries_and_filter_rows(rows, max_bytes_limit, last_query_start) ==
    normalize_from(rows, max_bytes_limit, 1,
                   [normalized_rows |-> <<>>, estimated_size |-> 0,
                    last_query_start |-> last_query_start,
                    skipped |-> {}, considered |-> <<>>, cut |-> 0,
                    returned |-> FALSE, raised |-> FALSE])

\* ---- the fetch filter ----
\* mutant: the suffix is assigned, not appended, and the filter is lost
get_extra_activity_query_args_assigned(last_query_start, collection_interval) ==
    [where    |-> FALSE,
     last     |-> None,
     interval |-> 0,
     order_by |-> "at.transaction_begin_time ASC",
     clauses  |-> <<"ORDER BY">>]

\* the inputs of the format() of lines 131-137: whether the WHERE NOT (...)
\* clause is there, the two values interpolated into it, the suffix, and the
\* clauses of the string in the order they are concatenated
get_extra_activity_query_args(last_query_start, collection_interval) ==
    [where    |-> last_query_start # None,
     last     |-> last_query_start,
     interval |-> IF last_query_start # None THEN collection_interval ELSE 0,
     order_by |-> "at.transaction_begin_time ASC",
     clauses  |-> (IF last_query_start # None THEN <<"WHERE NOT">> ELSE <<>>)
                    \o <<"ORDER BY">>]

\* DATEDIFF(second, startdate, enddate)
DateDiff(startdate, enddate) == enddate.v - startdate.v

\* mutant: the comparison is <= instead of <
where_excludes_le(row, args) ==
    /\ row["session_id"] = None
    /\ DateDiff(row["transaction_begin_time"], args.last) <= args.interval

\* mutant: the test of r.session_id is lost
where_excludes_any_request(row, args) ==
    DateDiff(row["transaction_begin_time"], args.last) < args.interval

\* the parenthesis of line 132, evaluated by the engine on one joined row
where_excludes(row, args) ==
    /\ row["session_id"] = None
    /\ DateDiff(row["transaction_begin_time"], args.last) < args.interval

\* the rows the engine returns for ACTIVITY_QUERY with these arguments
SelectActivity(live, args) ==
    {row \in live : ~(args.where /\ where_excludes(row, args))}

\* the orders ORDER BY at.transaction_begin_time ASC allows (ties are the engine's)
OrderedBy(S) ==
    {s \in [1..Cardinality(S) -> S] :
        /\ \A i, j \in 1..Cardinality(S) : i # j => s[i] # s[j]
        /\ \A i, j \in 1..Cardinality(S) :
              i < j => s[i]["transaction_begin_time"].v <= s[j]["transaction_begin_time"].v}

\* mutant: only a negative interval falls back to the default
CollectionInterval_zero_kept(config) ==
    LET collection_interval == IF config.has THEN config.v
                               ELSE DEFAULT_COLLECTION_INTERVAL
    IN IF collection_interval < 0 THEN DEFAULT_COLLECTION_INTERVAL
       ELSE collection_interval

\* ---- the job ----
\* lines 80-83
CollectionInterval(config) ==
    LET collection_interval == IF config.has THEN config.v
                               ELSE DEFAULT_COLLECTION_INTERVAL
    IN IF collection_interval <= 0 THEN DEFAULT_COLLECTION_INTERVAL
       ELSE collection_interval

\* check.activity_config.get('collection_interval'): missing, or a number
ActivityConfigs ==
    {[has |-> FALSE, v |-> 0]} \cup {[has |-> TRUE, v |-> n] : n \in {0 - 5, 0, 5}}

\* the budgets the normalizer is called with; collect_activity passes
\* MAX_PAYLOAD_BYTES, these stand for it at the scale of the rows above
Budgets == {143, 400}

\* mutant: the connection summary is dropped when no session is reported
create_activity_event_sessions_only(active_sessions, active_connections, interval) ==
    [host |-> "db-host",
     ddagentversion |-> "7.0.0",
     ddtags |-> <<>>,
     ddsource |-> "sqlserver",
     dbm_type |-> "activity",
     collection_interval |-> interval,
     sqlserver_activity |-> active_sessions,
     sqlserver_connections |-> IF active_sessions = <<>> THEN <<>>
                               ELSE active_connections]

\* lines 187-199; the timestamp, time.time() * 1000, is left out
create_activity_event(active_sessions, active_connections, interval) ==
    [host |-> "db-host",
     ddagentversion |-> "7.0.0",
     ddtags |-> <<>>,
     ddsource |-> "sqlserver",
     dbm_type |-> "activity",
     collection_interval |-> interval,
     sqlserver_activity |-> active_sessions,
     sqlserver_connections |-> active_connections]

VARIABLES
    activity_config,            \* check.activity_config
    collection_interval,        \* self.collection_interval
    activity_last_query_start,  \* self._activity_last_query_start
    live,                       \* the joined rows of the engine's live views
    pc,                         \* where collect_activity is
    conn_open,                  \* open_managed_default_connection is entered
    cursor_open,                \* get_managed_cursor is entered
    last_at_start,              \* _activity_last_query_start when the poll began
    extra_query_args,           \* what _get_activity formatted into the query
    connections,                \* local of collect_activity
    rows,                       \* local of collect_activity
    normalized_rows,            \* local of collect_activity
    max_bytes_limit,            \* the budget the normalizer was called with
    trace,                      \* what the normalizer did with each fetched row
    submitted,                  \* events handed to database_monitoring_query_activity
    error_count,                \* dd.sqlserver.activity.error increments of this poll
    histogram_count,            \* collect_activity.time samples of this poll
    failed_in,                  \* the step whose exception the handler caught
    result,                     \* what collect_activity returned
    omitted,                    \* rows the last normalization cut by the budget, still live
    seen_max                    \* the latest start_time among the rows that reached line 156

vars == <<activity_config, collection_interval, activity_last_query_start, live, pc,
          conn_open, cursor_open, last_at_start, extra_query_args, connections, rows,
          normalized_rows, max_bytes_limit, trace, submitted, error_count,
          histogram_count, failed_in, result, omitted, seen_max>>

job_vars == <<activity_config, collection_interval>>

NoArgs == [where |-> FALSE, last |-> None, interval |-> 0, order_by |-> "",
           clauses |-> <<>>]
NoTrace == [skipped |-> {}, considered |-> <<>>, cut |-> 0, raised |-> FALSE]

\* __init__ (lines 77-98) on this configuration, with nothing polled yet
Constructed(config) ==
    /\ activity_config = config
    /\ collection_interval = CollectionInterval(activity_config)
    /\ activity_last_query_start = None
    /\ live = {}
    /\ pc = "idle"
    /\ conn_open = FALSE
    /\ cursor_open = FALSE
    /\ last_at_start = None
    /\ extra_query_args = NoArgs
    /\ connections = <<>>
    /\ rows = <<>>
    /\ normalized_rows = <<>>
    /\ max_bytes_limit = 0
    /\ trace = NoTrace
    /\ submitted = <<>>
    /\ error_count = 0
    /\ histogram_count = 0
    /\ failed_in = "none"
    /\ result = "none"
    /\ omitted = {}
    /\ seen_max = None

\* the job of an instance that sets no interval, or sets five seconds
Init ==
    \E config \in {[has |-> FALSE, v |-> 0], [has |-> TRUE, v |-> 5]} :
        Constructed(config)

\* the job of any instance
InitAnyConfig == \E config \in ActivityConfigs : Constructed(config)

\* the poll's locals and per-poll observations, as a poll leaves them behind
poll_locals == <<last_at_start, extra_query_args, connections, rows, normalized_rows,
                 max_bytes_limit, trace, submitted, error_count, histogram_count,
                 failed_in, result>>

\* a transaction begins, between polls
BeginTransaction ==
    /\ pc = "idle"
    /\ Cardinality(live) < MaxRows
    /\ \E row \in RowUniverse \ live : live' = live \cup {row}
    /\ UNCHANGED <<job_vars, activity_last_query_start, pc, conn_open, cursor_open,
                   poll_locals, omitted, seen_max>>

\* a transaction ends, between polls
EndTransaction ==
    /\ pc = "idle"
    /\ \E row \in live : /\ live' = live \ {row}
                        /\ omitted' = omitted \ {row}
    /\ UNCHANGED <<job_vars, activity_last_query_start, pc, conn_open, cursor_open,
                   poll_locals, seen_max>>

\* mutant: the cursor is closed only by its owner's normal exit
ReleaseManaged_keeps_cursor ==
    /\ conn_open' = FALSE
    /\ cursor_open' = cursor_open

\* the two with blocks of lines 213-214 are left, by completion or by an
\* exception: the scoped connection and cursor are released
ReleaseManaged ==
    /\ conn_open' = FALSE
    /\ cursor_open' = FALSE

\* mutant: the handler does not count the failure
HandleException_no_count(step) ==
    /\ ReleaseManaged
    /\ error_count' = error_count
    /\ failed_in' = step
    /\ result' = "empty_list"
    /\ pc' = "returned"

\* mutant: the failure is counted by the handler and again on the way out
HandleException_counts_twice(step) ==
    /\ ReleaseManaged
    /\ error_count' = error_count + 2
    /\ failed_in' = step
    /\ result' = "empty_list"
    /\ pc' = "returned"

\* lines 222-230: the except clause; the with blocks were left on the way here
HandleException(step) ==
    /\ ReleaseManaged
    /\ error_count' = error_count + 1
    /\ failed_in' = step
    /\ result' = "empty_list"
    /\ pc' = "returned"

\* lines 209-214: collect_activity enters its two with blocks
OpenConnection ==
    /\ pc = "idle"
    /\ last_at_start' = activity_last_query_start
    /\ \E ok \in BOOLEAN :
         IF ok
         THEN /\ conn_open' = TRUE
              /\ cursor_open' = TRUE
              /\ pc' = "opened"
              /\ UNCHANGED <<error_count, failed_in, result>>
         ELSE HandleException("open")
    /\ UNCHANGED <<job_vars, activity_last_query_start, live, extra_query_args,
                   connections, rows, normalized_rows, max_bytes_limit, trace,
                   submitted, histogram_count, omitted, seen_max>>

\* line 215: _get_active_connections (lines 106-114)
GetActiveConnections ==
    /\ pc = "opened"
    /\ \E ok \in BOOLEAN :
         IF ok
         THEN /\ \E res \in ConnectionResults : connections' = res
              /\ pc' = "connections"
              /\ UNCHANGED <<conn_open, cursor_open, error_count, failed_in, result>>
         ELSE /\ HandleException("connections")
              /\ UNCHANGED connections
    /\ UNCHANGED <<job_vars, activity_last_query_start, live, last_at_start,
                   extra_query_args, rows, normalized_rows, max_bytes_limit, trace,
                   submitted, histogram_count, omitted, seen_max>>

\* line 216: _get_activity (lines 116-125)
GetActivity ==
    /\ pc = "connections"
    /\ LET args == get_extra_activity_query_args(activity_last_query_start,
                                                 collection_interval)
       IN /\ extra_query_args' = args
          /\ \E ok \in BOOLEAN :
               IF ok
               THEN /\ \E res \in OrderedBy(SelectActivity(live, args)) : rows' = res
                    /\ pc' = "fetched"
                    /\ UNCHANGED <<conn_open, cursor_open, error_count, failed_in,
                                   result>>
               ELSE /\ HandleException("activity")
                    /\ UNCHANGED rows
    /\ UNCHANGED <<job_vars, activity_last_query_start, live, last_at_start,
                   connections, normalized_rows, max_bytes_limit, trace,
                   submitted, histogram_count, omitted, seen_max>>

\* the fetched rows at and after index cut, as a set
CutRows(fetched, cut) ==
    IF cut = 0 THEN {} ELSE {fetched[i] : i \in cut..Len(fetched)}

\* the start_time values of the rows at these indexes
StartTimes(fetched, indexes) ==
    {fetched[indexes[j]]["start_time"] : j \in 1..Len(indexes)} \ {None}

\* the latest of a set of datetimes, None when there is none
Latest(S) ==
    IF S = {} THEN None ELSE CHOOSE x \in S : \A y \in S : y.v <= x.v

\* line 217: _normalize_queries_and_filter_rows (lines 140-164)
Normalize ==
    /\ pc = "fetched"
    /\ \E limit \in Budgets :
         \E st \in {normalize_queries_and_filter_rows(rows, limit,
                                                     activity_last_query_start)} :
            /\ max_bytes_limit' = limit
            /\ activity_last_query_start' = st.last_query_start
            /\ trace' = [skipped |-> st.skipped, considered |-> st.considered,
                         cut |-> st.cut, raised |-> st.raised]
            /\ omitted' = CutRows(rows, st.cut)
            /\ seen_max' = Latest(({seen_max} \ {None}) \cup StartTimes(rows, st.considered))
            /\ IF st.raised
               THEN /\ HandleException("normalize")
                    /\ UNCHANGED normalized_rows
               ELSE /\ normalized_rows' = st.normalized_rows
                    /\ pc' = "normalized"
                    /\ UNCHANGED <<conn_open, cursor_open, error_count, failed_in,
                                   result>>
    /\ UNCHANGED <<job_vars, live, last_at_start, extra_query_args, connections, rows,
                   submitted, histogram_count>>

\* lines 218-221 and, when they raise nothing, 232-239
SubmitEvent ==
    /\ pc = "normalized"
    /\ \E ok \in BOOLEAN :
         IF ok
         THEN /\ submitted' = Append(submitted,
                     create_activity_event(normalized_rows, connections,
                                           collection_interval))
              /\ ReleaseManaged
              /\ histogram_count' = histogram_count + 1
              /\ result' = "None"
              /\ pc' = "returned"
              /\ UNCHANGED <<error_count, failed_in>>
         ELSE /\ HandleException("submit")
              /\ UNCHANGED <<submitted, histogram_count>>
    /\ UNCHANGED <<job_vars, activity_last_query_start, live, last_at_start,
                   extra_query_args, connections, rows, normalized_rows,
                   max_bytes_limit, trace, omitted, seen_max>>

\* run_job (lines 103-104) returns to the harness: the poll's locals are gone
RunJobReturns ==
    /\ pc = "returned"
    /\ pc' = "idle"
    /\ last_at_start' = None
    /\ extra_query_args' = NoArgs
    /\ connections' = <<>>
    /\ rows' = <<>>
    /\ normalized_rows' = <<>>
    /\ max_bytes_limit' = 0
    /\ trace' = NoTrace
    /\ submitted' = <<>>
    /\ error_count' = 0
    /\ histogram_count' = 0
    /\ failed_in' = "none"
    /\ result' = "none"
    /\ UNCHANGED <<job_vars, activity_last_query_start, live, conn_open, cursor_open,
                   omitted, seen_max>>

Next ==
    \/ BeginTransaction
    \/ EndTransaction
    \/ OpenConnection
    \/ GetActiveConnections
    \/ GetActivity
    \/ Normalize
    \/ SubmitEvent
    \/ RunJobReturns

Spec == Init /\ [][Next]_vars

SpecAnyConfig == InitAnyConfig /\ [][Next]_vars

\* ======================= the claims =======================
Range(seq) == {seq[i] : i \in 1..Len(seq)}

\* a <= b on watermark values, unset being below every datetime
LastLe(a, b) == a = None \/ (b # None /\ a.v <= b.v)

\* the normalizer has returned and the event is not yet built
Normalized == pc = "normalized"

\* the row the normalizer makes of fetched row i when it reaches line 163
OutputOf(i) ==
    LET ob == obfuscate_statement(rows[i])
    IN sanitize_row(ob.row, ob.obfuscated_statement)

\* the estimated sizes of fetched rows 1..i, added up
RECURSIVE SizeUpTo(_)
SizeUpTo(i) ==
    IF i = 0 THEN 0 ELSE SizeUpTo(i - 1) + get_estimated_row_size_bytes(OutputOf(i))

\* the indexes at which the running total is over the budget
OverAt == {i \in 1..Len(rows) : SizeUpTo(i) > max_bytes_limit}

\* the first of them, or one past the last row
FirstOver == IF OverAt = {} THEN Len(rows) + 1
             ELSE CHOOSE i \in OverAt : \A j \in OverAt : i <= j

\* C1: the watermark never decreases: no step takes it from a value back to
\* unset, or from a value to an earlier one.
C1_WatermarkNeverDecreases ==
    [][LastLe(activity_last_query_start, activity_last_query_start')]_vars

\* C1 witness: a poll that began with the watermark set has considered a row
\* whose start_time is earlier than the watermark.
C1_Witness ==
    /\ Normalized
    /\ last_at_start # None
    /\ \E j \in 1..Len(trace.considered) :
         LET t == rows[trace.considered[j]]["start_time"]
         IN t # None /\ t.v < last_at_start.v

\* C2: the watermark is the latest non-null start_time among all the rows
\* the normalizer has considered so far (not skipped by the cold-start rule,
\* up to and including the row that went over the budget), and is unset if
\* there was none.
C2_WatermarkIsLatestConsidered == activity_last_query_start = seen_max

\* C2 witness: the watermark was advanced by the row that went over the budget,
\* while a sleeping row with a start_time was skipped without advancing it.
C2_Witness ==
    /\ Normalized
    /\ trace.cut # 0
    /\ rows[trace.cut]["start_time"] # None
    /\ activity_last_query_start = rows[trace.cut]["start_time"]
    /\ activity_last_query_start # last_at_start
    /\ \E i \in trace.skipped : rows[i]["start_time"] # None

\* C3: when no row is skipped by the cold-start rule, the output is exactly
\* the rows before the first one at which the running total goes over the
\* budget, in fetch order (all the rows when none goes over).
C3_OutputIsPrefix ==
    (Normalized /\ trace.skipped = {})
        => normalized_rows = [i \in 1..(FirstOver - 1) |-> OutputOf(i)]

\* C3 witness: the first row went over the budget and a later row, which
\* would have fitted on its own, is not in the output.
C3_Witness ==
    /\ Normalized
    /\ trace.skipped = {}
    /\ FirstOver = 1
    /\ Len(rows) = 2
    /\ get_estimated_row_size_bytes(OutputOf(2)) <= max_bytes_limit
    /\ normalized_rows = <<>>

\* C4: a poll that begins with the watermark unset outputs no row whose
\* status is "sleeping", wherever it sits in fetch order.
C4_NoSleepingRowOnColdStart ==
    (Normalized /\ last_at_start = None)
        => \A j \in 1..Len(normalized_rows) :
              normalized_rows[j]["status"] # Str("sleeping")

C7_BusyRowsAreAlwaysFetched ==
    pc = "fetched"
        => \A r \in live : r["session_id"] # None => r \in Range(rows)

\* C7 witness: a row with an active request that the budget omitted, begun
\* less than collection_interval seconds before the watermark, is fetched again.
C7_Witness ==
    /\ pc = "fetched"
    /\ last_at_start # None
    /\ \E r \in omitted :
         /\ r["session_id"] # None
         /\ last_at_start.v - r["transaction_begin_time"].v < collection_interval
         /\ r \in Range(rows)

\* C8: a poll whose connection-summary or transaction-activity fetch raised
\* has sent no event, counted one failure, returned an empty list, recorded no
\* timing, and left the watermark as it was, so the filter the next poll
\* builds is the one this poll built.
C8_FetchFailureLeavesNoTrace ==
    (pc = "returned" /\ failed_in \in {"connections", "activity"})
        => /\ submitted = <<>>
           /\ error_count = 1
           /\ histogram_count = 0
           /\ result = "empty_list"
           /\ activity_last_query_start = last_at_start
           /\ failed_in = "activity"
                => get_extra_activity_query_args(activity_last_query_start,
                                                 collection_interval)
                     = extra_query_args

\* C8 witness: the transaction-activity fetch failed with the watermark set
\* and transactions live.
C8_Witness ==
    /\ pc = "returned"
    /\ failed_in = "activity"
    /\ activity_last_query_start # None
    /\ live # {}
    /\ extra_query_args.where

\* C9: a row the obfuscator fails on never makes the normalizer raise; it
\* gets the sentinel text, advances the watermark, is sanitized and is
\* accepted unless it is the row that goes over the budget, and the rows after
\* it are processed.
C9_ObfuscationFailureIsRecovered ==
    /\ failed_in # "normalize"
    /\ ~trace.raised
    /\ Normalized =>
         /\ Len(normalized_rows) =
               Len(trace.considered) - (IF trace.cut = 0 THEN 0 ELSE 1)
         /\ trace.cut = 0 =>
               Range(trace.considered) \cup trace.skipped = 1..Len(rows)
         /\ \A j \in 1..Len(trace.considered) :
              LET i == trace.considered[j] IN
              ~obfuscate_sql(rows[i]["text"].v).ok =>
                 /\ LastLe(rows[i]["start_time"], activity_last_query_start)
                 /\ j <= Len(normalized_rows) =>
                      /\ normalized_rows[j]["text"] = Str("ERROR: failed to obfuscate")
                      /\ DOMAIN normalized_rows[j]
                           \cap dm_exec_requests_exclude_keys = {}

\* C9 witness: the obfuscator failed on the first row; it is in the output
\* with the sentinel text and the row after it is in the output too.
C9_Witness ==
    /\ Normalized
    /\ Len(rows) = 2
    /\ ~obfuscate_sql(rows[1]["text"].v).ok
    /\ Len(normalized_rows) = 2
    /\ normalized_rows[1]["text"] = Str("ERROR: failed to obfuscate")
    /\ obfuscate_sql(rows[2]["text"].v).ok

\* C10: every output row has none of the excluded keys and no None value; its
\* text is the obfuscated statement or the sentinel, not the raw statement;
\* its query_hash and query_plan_hash, when present, are the hex strings of
\* the fetched bytes.
C10_OutputRowsAreSanitized ==
    Normalized =>
      \A j \in 1..Len(normalized_rows) :
        LET out == normalized_rows[j]
            raw == rows[trace.considered[j]]
        IN /\ DOMAIN out \cap {"sql_handle", "plan_handle", "statement_sql_handle",
                               "task_address", "page_resource", "scheduler_id",
                               "context_info"} = {}
           /\ \A k \in DOMAIN out : out[k] # None
           /\ out["text"] \in {Str("SELECT ?"), Str("ERROR: failed to obfuscate")}
           /\ out["text"] # raw["text"]
           /\ "query_hash" \in DOMAIN out =>
                 (raw["query_hash"] = Bytes(<<171, 1>>)
                    /\ out["query_hash"] = Str("ab01"))
           /\ "query_plan_hash" \in DOMAIN out =>
                 (raw["query_plan_hash"] = Bytes(<<15, 240>>)
                    /\ out["query_plan_hash"] = Str("0ff0"))

\* C10 witness: the output holds a row with both hashes and a row whose
\* request columns were all None.
C10_Witness ==
    /\ Normalized
    /\ Len(normalized_rows) = 2
    /\ "query_hash" \in DOMAIN normalized_rows[1]
    /\ "query_plan_hash" \in DOMAIN normalized_rows[1]
    /\ rows[2]["session_id"] = None

\* C11: a poll that begins with the watermark set skips no row by the
\* cold-start rule: every sleeping row it fetched before the first row that
\* goes over the budget is in the output, at its place in fetch order.
C11_NoSkipOnceWatermarkSet ==
    (Normalized /\ last_at_start # None)
        => /\ trace.skipped = {}
           /\ \A i \in 1..Len(rows) :
                (rows[i]["status"] = Str("sleeping") /\ i < FirstOver)
                    => /\ i <= Len(normalized_rows)
                       /\ normalized_rows[i] = OutputOf(i)

\* C11 witness: a poll that began with the watermark set has output a
\* sleeping row that has no active request.
C11_Witness ==
    /\ Normalized
    /\ last_at_start # None
    /\ \E j \in 1..Len(normalized_rows) :
         /\ normalized_rows[j]["status"] = Str("sleeping")
         /\ rows[j]["session_id"] = None

\* C12: the filter of a poll's transaction-activity fetch is built from the
\* watermark the poll began with, and stays that when normalization moves the
\* watermark; the WHERE NOT clause is there exactly when that watermark is
\* set, with that watermark and the job's interval in it; the ascending
\* ORDER BY transaction_begin_time suffix is the last clause of every fetch.
C12_FilterIsFromPreviousWatermark ==
    pc \in {"fetched", "normalized"}
        => /\ extra_query_args.where = (last_at_start # None)
           /\ extra_query_args.last = last_at_start
           /\ extra_query_args.where
                 => /\ extra_query_args.interval = collection_interval
                    /\ extra_query_args.clauses = <<"WHERE NOT", "ORDER BY">>
           /\ ~extra_query_args.where
                 => /\ extra_query_args.clauses = <<"ORDER BY">>
                    /\ Range(rows) = live
           /\ extra_query_args.order_by = "at.transaction_begin_time ASC"
           /\ pc = "fetched" => activity_last_query_start = last_at_start

\* C12 witness: the fetch was filtered by the watermark the poll began with,
\* and normalization has since moved the watermark.
C12_Witness ==
    /\ Normalized
    /\ last_at_start # None
    /\ extra_query_args.where
    /\ extra_query_args.last = last_at_start
    /\ activity_last_query_start # last_at_start
    /\ Range(rows) # live

\* C13: the sqlserver_connections list of the event a poll submitted is the
\* list the connection-summary fetch returned, same rows in the same order,
\* whatever the budget, the rows cut or skipped, and the watermark.
C13_ConnectionsPassThrough ==
    \A k \in 1..Len(submitted) :
        submitted[k].sqlserver_connections = connections

\* C13 witness: an event was submitted with the two summary rows in fetch
\* order, by a cold-start poll whose activity rows were all cut or skipped.
C13_Witness ==
    /\ pc = "returned"
    /\ Len(submitted) = 1
    /\ submitted[1].sqlserver_connections
         = <<ConnectionRow("bob", 2, "sleeping"), ConnectionRow("alice", 1, "running")>>
    /\ submitted[1].sqlserver_activity = <<>>
    /\ last_at_start = None
    /\ trace.cut # 0
    /\ trace.skipped # {}

\* C14: no poll ends holding the connection or the cursor: when
\* collect_activity has returned, by completion or through the handler of
\* any failure, and between polls, both are released.
C14_ConnectionReleasedOnReturn ==
    pc \in {"returned", "idle"} => (~conn_open /\ ~cursor_open)

\* C14 witness: a poll that held the connection and the cursor through both
\* fetches and the normalization failed in serialization or transmission, and
\* has returned with both released.
C14_Witness ==
    /\ pc = "returned"
    /\ failed_in = "submit"
    /\ rows # <<>>
    /\ ~conn_open
    /\ ~cursor_open

\* C15: a poll that has returned is in exactly one of two outcomes: success,
\* with exactly one event submitted, one timing sample and no failure
\* counted; or failure, with the failure counted exactly once and no timing
\* sample.  No poll submits more than one event, a poll that failed does
\* nothing more before it returns, and a poll still running has recorded
\* neither outcome.
C15_OneOutcomePerPoll ==
    /\ Len(submitted) <= 1
    /\ failed_in # "none" => pc = "returned"
    /\ pc = "returned"
         => LET success == /\ Len(submitted) = 1
                           /\ histogram_count = 1
                           /\ error_count = 0
                           /\ failed_in = "none"
                           /\ result = "None"
                failure == /\ error_count = 1
                           /\ histogram_count = 0
                           /\ failed_in # "none"
                           /\ result = "empty_list"
            IN success # failure
    /\ pc # "returned"
         => /\ submitted = <<>>
            /\ error_count = 0
            /\ histogram_count = 0

\* C15 witness: a poll failed in serialization or transmission after a
\* normalization that produced rows: one failure counted, no timing sample,
\* no event, and no second attempt.
C15_Witness ==
    /\ pc = "returned"
    /\ failed_in = "submit"
    /\ normalized_rows # <<>>
    /\ error_count = 1
    /\ histogram_count = 0
    /\ submitted = <<>>

\* C16: the job's collection interval is always strictly positive: it is the
\* configured value when that is positive, and 10 when the configured value
\* is zero or negative or missing; the event's collection_interval field and
\* the interval in the fetch's WHERE NOT clause are that same value.
C16_IntervalIsPositive ==
    /\ collection_interval > 0
    /\ (activity_config.has /\ activity_config.v > 0)
          => collection_interval = activity_config.v
    /\ (~activity_config.has \/ activity_config.v <= 0)
          => collection_interval = 10
    /\ \A k \in 1..Len(submitted) :
          submitted[k].collection_interval = collection_interval
    /\ extra_query_args.where => extra_query_args.interval = collection_interval

\* C16 witness: a job configured with an interval of zero has filtered a
\* fetch with an interval of 10 and submitted an event that says 10.
C16_Witness ==
    /\ activity_config = [has |-> TRUE, v |-> 0]
    /\ pc = "returned"
    /\ extra_query_args.where
    /\ extra_query_args.interval = 10
    /\ Len(submitted) = 1
    /\ submitted[1].collection_interval = 10

\* the estimated sizes of these rows, added up
RECURSIVE SumSizes(_)
SumSizes(seq) ==
    IF seq = <<>> THEN 0
    ELSE get_estimated_row_size_bytes(Head(seq)) + SumSizes(Tail(seq))

\* C17: the estimated sizes of the rows the normalizer returns add up to at
\* most the budget.  A row is rejected only when the total with it exceeds
\* the budget, and no row after it is looked at; every other row that was
\* not skipped is in the output, one that brings the total to exactly the
\* budget included.
C17_OutputFitsBudget ==
    Normalized
      => /\ SumSizes(normalized_rows) <= max_bytes_limit
         /\ trace.cut # 0
              => /\ SumSizes(normalized_rows)
                      + get_estimated_row_size_bytes(OutputOf(trace.cut))
                    > max_bytes_limit
                 /\ Len(normalized_rows) = Len(trace.considered) - 1
                 /\ trace.considered[Len(trace.considered)] = trace.cut
                 /\ \A i \in (trace.cut + 1)..Len(rows) :
                       i \notin trace.skipped \cup Range(trace.considered)
         /\ trace.cut = 0
              => /\ Len(normalized_rows) = Len(trace.considered)
                 /\ Range(trace.considered) \cup trace.skipped = 1..Len(rows)

\* C17 witness: the output's sizes add up to exactly the budget.
C17_Witness ==
    /\ Normalized
    /\ normalized_rows # <<>>
    /\ SumSizes(normalized_rows) = max_bytes_limit
    /\ trace.cut = 0

\* C18 as stated: every output row, the rows with the sentinel text included,
\* carries a query_signature that is the signature of its final text.
C18_EveryOutputRowIsSigned ==
    Normalized
      => \A j \in 1..Len(normalized_rows) :
           LET out == normalized_rows[j]
           IN /\ "query_signature" \in DOMAIN out
              /\ out["query_signature"] = Str(compute_sql_signature(out["text"].v))

\* C18 as amended: an output row whose statement the obfuscator accepted
\* carries a query_signature that is the signature of its final text, so two
\* such rows with equal text have equal signatures; an output row whose
\* obfuscation failed has the sentinel text and carries no query_signature.
C18_ObfuscatedRowsAreSigned ==
    Normalized
      => /\ \A j \in 1..Len(normalized_rows) :
              LET out == normalized_rows[j]
                  raw == rows[trace.considered[j]]
              IN IF obfuscate_sql(raw["text"].v).ok
                 THEN /\ "query_signature" \in DOMAIN out
                      /\ out["query_signature"]
                           = Str(compute_sql_signature(out["text"].v))
                 ELSE /\ out["text"] = Str("ERROR: failed to obfuscate")
                      /\ "query_signature" \notin DOMAIN out
         /\ \A j, k \in 1..Len(normalized_rows) :
              LET a == normalized_rows[j]
                  b == normalized_rows[k]
              IN (/\ "query_signature" \in DOMAIN a
                  /\ "query_signature" \in DOMAIN b
                  /\ a["text"] = b["text"])
                    => a["query_signature"] = b["query_signature"]

\* C18 witness: the output holds a signed row and a row with the sentinel
\* text and no signature.
C18_Witness ==
    /\ Normalized
    /\ Len(normalized_rows) = 2
    /\ \E j, k \in 1..2 :
         /\ normalized_rows[j]["text"] = Str("SELECT ?")
         /\ normalized_rows[j]["query_signature"] = Str("sig:SELECT ?")
         /\ normalized_rows[k]["text"] = Str("ERROR: failed to obfuscate")
         /\ "query_signature" \notin DOMAIN normalized_rows[k]

\* C19 as stated: a poll that ended on the failure path, having submitted no
\* event, has left the watermark as it was when the poll began.
C19_NoProgressOnFailedPoll ==
    (pc = "returned" /\ failed_in # "none" /\ submitted = <<>>)
        => activity_last_query_start = last_at_start

\* C19 as amended: a poll that failed before normalization (entering the
\* connection, or in either fetch) has left the watermark as it was when the
\* poll began; a poll that failed in serialization or transmission has left
\* it where normalization put it: the latest of the value the poll began with
\* and the start_time values of the rows normalization considered.
C19_ProgressOnlyFromNormalization ==
    (pc = "returned" /\ failed_in # "none")
        => /\ submitted = <<>>
           /\ failed_in \in {"open", "connections", "activity"}
                => activity_last_query_start = last_at_start
           /\ failed_in = "submit"
                => activity_last_query_start
                     = Latest(({last_at_start} \ {None})
                                \cup StartTimes(rows, trace.considered))

\* C19 witness: a poll failed in serialization or transmission and the
\* watermark is later than when the poll began.
C19_Witness ==
    /\ pc = "returned"
    /\ failed_in = "submit"
    /\ submitted = <<>>
    /\ last_at_start # None
    /\ activity_last_query_start # last_at_start
====
